---- MODULE Spec2Model ----
(***************************************************************************)
(* Model of fgread/read.py: dataset discovery (get_ds_paths), metadata     *)
(* aggregation (ds_info), selection (select_ds_id) and format dispatch     *)
(* (load_data).                                                            *)
(*                                                                         *)
(* Representation                                                          *)
(*   - a Python str is a TLA+ string; Chars(s) gives its characters        *)
(*   - a Python dict is a sequence of <<key, value>> pairs, in insertion   *)
(*     order (Python dicts keep insertion order)                           *)
(*   - a pathlib.Path is the sequence of its components                    *)
(*   - Optional[str] is [some |-> BOOLEAN, v |-> STRING]                   *)
(*   - a pandas DataFrame is [columns |-> Seq(STRING), rows |-> Seq(row)], *)
(*     a row being a function from the column names to cell values; a      *)
(*     missing cell is NaN                                                 *)
(*   - the outcome of a call is [ok |-> BOOLEAN, err |-> ..., val |-> ...] *)
(*     where err is [kind |-> exception class, at |-> raising function,    *)
(*     info |-> data formatted into the message]                           *)
(***************************************************************************)
EXTENDS Integers, Sequences, FiniteSets, TLC

VARIABLES root_exists, children, ipython, pandas, DEFAULT_READERS, last, overridden

vars == <<root_exists, children, ipython, pandas, DEFAULT_READERS, last, overridden>>

----------------------------------------------------------------------------
(* Bounds *)

\* at most this many entries in the data directory at a time
MaxChildren == 2

\* a reader returns a body of at most this many rows (cells)
MaxRows == 2

----------------------------------------------------------------------------
(* Python values *)

NoneVal == [some |-> FALSE, v |-> ""]

Some(s) == [some |-> TRUE, v |-> s]

\* truth value of an Optional[str] in `if ds:`: None and "" are falsy
Truthy(ds) == ds.some /\ ds.v # ""

NaN == "NaN"

Ok(v) == [ok |-> TRUE, err |-> [kind |-> "", at |-> "", info |-> <<>>], val |-> v]

Raise(kind, at, info) == [ok |-> FALSE, err |-> [kind |-> kind, at |-> at, info |-> info], val |-> <<>>]

\* the elements of a sequence
Range(s) == {s[i] : i \in 1..Len(s)}

\* list filter keeping order
RECURSIVE SelectIdx(_, _)
SelectIdx(s, keep) ==
    IF s = <<>> THEN <<>>
    ELSE IF Head(s) \in keep THEN <<Head(s)>> \o SelectIdx(Tail(s), keep)
         ELSE SelectIdx(Tail(s), keep)

(* dict operations: a dict is a sequence of <<key, value>> pairs *)
DictKeys(d) == [i \in 1..Len(d) |-> d[i][1]]

DictHas(d, k) == \E i \in 1..Len(d) : d[i][1] = k

DictGet(d, k) == d[CHOOSE i \in 1..Len(d) : d[i][1] = k][2]

\* d[k] = v : replaces in place when the key exists, else appends
DictSet(d, k, v) ==
    IF DictHas(d, k)
    THEN [i \in 1..Len(d) |-> IF d[i][1] = k THEN <<k, v>> ELSE d[i]]
    ELSE Append(d, <<k, v>>)

\* d.pop(k, None)
DictPop(d, k) == SelectSeq(d, LAMBDA kv : kv[1] # k)

\* {**a, **b}
RECURSIVE DictMerge(_, _)
DictMerge(a, b) ==
    IF b = <<>> THEN a
    ELSE DictMerge(DictSet(a, Head(b)[1], Head(b)[2]), Tail(b))

----------------------------------------------------------------------------
(* Strings of the directory-name pool, with their characters *)

NameChars ==
    [ dataset_0001 |-> <<"d","a","t","a","s","e","t","_","0","0","0","1">>,
      dataset_0002 |-> <<"d","a","t","a","s","e","t","_","0","0","0","2">>,
      dataset_00010 |-> <<"d","a","t","a","s","e","t","_","0","0","0","1","0">>,
      dataset_00x1 |-> <<"d","a","t","a","s","e","t","_","0","0","x","1">>,
      Dataset_0003 |-> <<"D","a","t","a","s","e","t","_","0","0","0","3">>,
      dataset_0001nl |-> <<"d","a","t","a","s","e","t","_","0","0","0","1","\n">>,
      dataset_000u0663 |-> <<"d","a","t","a","s","e","t","_","0","0","0","U+0663">> ]

\* the names an entry of the data directory may have; "dataset_0001nl" stands
\* for the name "dataset_0001" followed by a newline character, and
\* "dataset_000u0663" for "dataset_000" followed by the one character U+0663
\* (ARABIC-INDIC DIGIT THREE), written "U+0663" in the character sequences
NamePool == DOMAIN NameChars

\* the keys of the dataset_info.json files, which become column labels
LabelChars ==
    [ title |-> <<"t","i","t","l","e">>,
      id |-> <<"i","d">>,
      format |-> <<"f","o","r","m","a","t">>,
      organism |-> <<"o","r","g","a","n","i","s","m">>,
      tissue |-> <<"t","i","s","s","u","e">>,
      numberOfCells |-> <<"n","u","m","b","e","r","O","f","C","e","l","l","s">>,
      numberOfGenes |-> <<"n","u","m","b","e","r","O","f","G","e","n","e","s">>,
      path |-> <<"p","a","t","h">>,
      file |-> <<"f","i","l","e">>,
      description |-> <<"d","e","s","c","r","i","p","t","i","o","n">>,
      license |-> <<"l","i","c","e","n","s","e">>,
      webLink |-> <<"w","e","b","L","i","n","k">> ]

Chars(s) == IF s \in DOMAIN NameChars THEN NameChars[s] ELSE LabelChars[s]

\* code points of the characters used
OrdTable ==
    << <<"\n", 10>>, <<"0", 48>>, <<"1", 49>>, <<"2", 50>>, <<"3", 51>>, <<"C", 67>>,
       <<"D", 68>>, <<"G", 71>>, <<"L", 76>>, <<"O", 79>>, <<"_", 95>>, <<"a", 97>>,
       <<"b", 98>>, <<"c", 99>>, <<"d", 100>>, <<"e", 101>>, <<"f", 102>>, <<"g", 103>>,
       <<"h", 104>>, <<"i", 105>>, <<"k", 107>>, <<"l", 108>>, <<"m", 109>>, <<"n", 110>>,
       <<"o", 111>>, <<"p", 112>>, <<"r", 114>>, <<"s", 115>>, <<"t", 116>>, <<"u", 117>>,
       <<"w", 119>>, <<"x", 120>>, <<"U+0663", 1635>> >>

OrdOf == [c \in Range(DictKeys(OrdTable)) |-> DictGet(OrdTable, c)]

Ord(c) == OrdOf[c]

\* str comparison a < b : lexicographic by code point
RECURSIVE SeqLess(_, _)
SeqLess(a, b) ==
    IF b = <<>> THEN FALSE
    ELSE IF a = <<>> THEN TRUE
    ELSE IF Ord(Head(a)) # Ord(Head(b)) THEN Ord(Head(a)) < Ord(Head(b))
    ELSE SeqLess(Tail(a), Tail(b))

StrLess(a, b) == SeqLess(Chars(a), Chars(b))

\* a set of distinct strings in increasing order
RECURSIVE InOrder(_)
InOrder(S) ==
    IF S = {} THEN <<>>
    ELSE LET m == CHOOSE x \in S : \A y \in S \ {x} : StrLess(x, y)
         IN <<m>> \o InOrder(S \ {m})

\* all the strings that are ever sorted, in increasing order
StringsInOrder == InOrder(DOMAIN NameChars \cup DOMAIN LabelChars)

\* sorted(xs) for a set of distinct strings
Sorted(S) == SelectSeq(StringsInOrder, LAMBDA x : x \in S)

\* \d of a str pattern: every Unicode decimal digit (category Nd), of which
\* the characters used have the ASCII digits and U+0663
IsDigit(c) == c \in {"0", "1", "2", "3", "4", "5", "6", "7", "8", "9", "U+0663"}

DatasetPrefix == <<"d","a","t","a","s","e","t","_">>

\* re.match(r"^dataset_\d{4}$", name): "$" matches at the end of the string
\* and also just before a newline that ends the string
ReMatch(name) ==
    LET cs == Chars(name)
        core(n) == /\ n = Len(DatasetPrefix) + 4
                   /\ SubSeq(cs, 1, Len(DatasetPrefix)) = DatasetPrefix
                   /\ \A i \in (Len(DatasetPrefix) + 1)..n : IsDigit(cs[i])
    IN \/ core(Len(cs))
       \/ /\ Len(cs) >= 1
          /\ cs[Len(cs)] = "\n"
          /\ core(Len(cs) - 1)

----------------------------------------------------------------------------
(* The data directory *)

\* DATA_DIR
DATA_DIR == <<"fastgenomics", "data">>

\* contents of dataset_info.json files, in file order
InfoPool ==
    << << <<"schemaVersion", "1.0">>, <<"id", "a1">>, <<"title", "Demo">>,
          <<"format", "comma-separated text">>, <<"file", "data.csv">>,
          <<"organism", "human">>, <<"tissue", "blood">>,
          <<"numberOfCells", "10">>, <<"numberOfGenes", "5">>,
          <<"description", "d1">> >>,
       << <<"title", "Demo">>, <<"license", "MIT">>, <<"id", "a2">>,
          <<"format", "Not set">>, <<"file", "x.loom">>,
          <<"tissue", "lung">>, <<"organism", "mouse">>,
          <<"numberOfGenes", "7">>, <<"numberOfCells", "3">>,
          <<"schemaVersion", "1.0">> >>,
       << <<"id", "a3">>, <<"title", "a1">>, <<"format", "BadFormat">>,
          <<"file", "f.bin">>, <<"schemaVersion", "1.0">> >>,
       << <<"id", "a4">>, <<"title", "T4">>, <<"format", "Other">>,
          <<"file", "o.dat">>, <<"webLink", "w">>,
          <<"organism", "human">>, <<"tissue", "skin">>,
          <<"numberOfCells", "4">>, <<"numberOfGenes", "4">>,
          <<"description", "d4">> >> >>

NoEntry == [kind |-> "absent", info |-> 0]

FileEntry == [kind |-> "file", info |-> 0]

DirEntry(i) == [kind |-> "dir", info |-> i]

\* what an entry named n may be: the two plain dataset names are a file or a
\* directory with any dataset_info.json of the pool, the other names are a
\* directory with the first one
EntriesFor(n) ==
    IF n \in {"dataset_0001", "dataset_0002"}
    THEN {FileEntry} \cup {DirEntry(i) : i \in 1..Len(InfoPool)}
    ELSE {DirEntry(1)}

\* data_dir.iterdir(): the names present
IterDir(ch) == {n \in NamePool : ch[n].kind # "absent"}

IsDir(ch, n) == ch[n].kind = "dir"

----------------------------------------------------------------------------
(* get_ds_paths *)

\* the Path objects of the kept names
ToPaths(kept) == [i \in 1..Len(kept) |-> Append(DATA_DIR, kept[i])]

\* line 275-276: assert paths != []; return paths
AssertNotEmpty(paths) ==
    IF paths = <<>> THEN Raise("AssertionError", "get_ds_paths", <<>>) ELSE Ok(paths)

\* get_ds_paths without the subdir.is_dir() test
get_ds_paths_NoDirTest(exists, ch) ==
    IF ~exists THEN Ok(<<>>)
    ELSE AssertNotEmpty(ToPaths(
            SelectIdx(Sorted(IterDir(ch)), {n \in NamePool : ReMatch(n)})))

get_ds_paths(exists, ch) ==
    IF ~exists THEN Ok(<<>>)
    ELSE AssertNotEmpty(ToPaths(
            SelectIdx(Sorted(IterDir(ch)), {n \in NamePool : IsDir(ch, n) /\ ReMatch(n)})))

----------------------------------------------------------------------------
(* pandas DataFrame *)

DfEmpty == [columns |-> <<>>, rows |-> <<>>]

\* the frame with the columns cols and info as its last row; cells that a row
\* does not have are NaN
DfWiden(df, info, cols) ==
    [columns |-> cols,
     rows |-> [i \in 1..Len(df.rows) |->
                  [c \in Range(cols) |->
                      IF c \in DOMAIN df.rows[i] THEN df.rows[i][c] ELSE NaN]]
              \o << [c \in Range(cols) |->
                      IF DictHas(info, c) THEN DictGet(info, c) ELSE NaN] >>]

\* What DataFrame.append(dict, ignore_index=True) of the installed pandas does
\* with the labels of the record that are not yet columns.  The module does
\* not say which pandas it runs on, and the releases differ:
\*   "sorted"      the new labels are added in sorted order, for every record
\*                 (self.columns.append(other.index.difference(self.columns)));
\*   "first_kept"  the same, except that the difference with the empty column
\*                 index of pd.DataFrame() is the record's index unchanged, so
\*                 the first record keeps its own order;
\*   "kept"        the record is concatenated with sort=False and the new
\*                 labels follow in the order of the record;
\*   "absent"      DataFrame has no append and the call raises AttributeError.
PandasAppend == {"sorted", "first_kept", "kept", "absent"}

\* the keys of info that are not columns of df, in the order of info
NewLabels(df, info) ==
    SelectSeq(DictKeys(info), LAMBDA k : k \notin Range(df.columns))

\* ds_df.append(info, ignore_index=True) where DataFrame.append exists; pd is
\* the behaviour of the installed pandas
DfAppend(df, info, pd) ==
    DfWiden(df, info,
            IF pd = "kept" \/ (pd = "first_kept" /\ df.columns = <<>>)
            THEN df.columns \o NewLabels(df, info)
            ELSE df.columns \o Sorted(Range(NewLabels(df, info))))

\* ds_df[col_names]
DfReindex(df, col_names) ==
    [columns |-> col_names,
     rows |-> [i \in 1..Len(df.rows) |-> [c \in Range(col_names) |-> df.rows[i][c]]]]

----------------------------------------------------------------------------
(* select_ds_id *)

\* row indices with id == ds or title == ds
MatchingRows(ds, df) ==
    SelectIdx([i \in 1..Len(df.rows) |-> i],
              {i \in 1..Len(df.rows) : df.rows[i]["id"] = ds \/ df.rows[i]["title"] = ds})

\* lines 239-247, m being the indices of the rows of single_df; ipy: whether
\* the interpreter is an IPython shell, which puts `display` among the
\* builtins; the module itself never binds the name
SelectOutcome(df, m, ipy) ==
    IF Len(m) = 1
    THEN Ok([columns |-> df.columns, rows |-> <<df.rows[m[1]]>>])
    ELSE IF Len(m) > 1 /\ ~ipy
         THEN Raise("NameError", "select_ds_id", <<"display">>)
         ELSE Raise("KeyError", "select_ds_id", <<Len(m)>>)

select_ds_id(ds, df, ipy) ==
    IF "id" \notin Range(df.columns) THEN Raise("KeyError", "select_ds_id", <<"id">>)
    ELSE IF "title" \notin Range(df.columns) THEN Raise("KeyError", "select_ds_id", <<"title">>)
    ELSE SelectOutcome(df, MatchingRows(ds, df), ipy)

----------------------------------------------------------------------------
(* ds_info *)

sort_order ==
    <<"title", "id", "format", "organism", "tissue", "numberOfCells",
      "numberOfGenes", "path", "file">>

\* with open(ds_path / "dataset_info.json"): json.load, set "path", pop
\* "schemaVersion"
ReadInfo(ch, ds_path) ==
    DictPop(DictSet(InfoPool[ch[ds_path[Len(ds_path)]].info], "path", ds_path),
            "schemaVersion")

\* lines 72-77: the loop over the dataset directories; without
\* DataFrame.append the first pass raises at line 77
RECURSIVE CollectInfo(_, _, _, _)
CollectInfo(ds_df, ds_paths, ch, pd) ==
    IF ds_paths = <<>> THEN Ok(ds_df)
    ELSE IF pd = "absent" THEN Raise("AttributeError", "ds_info", <<"append">>)
    ELSE CollectInfo(DfAppend(ds_df, ReadInfo(ch, Head(ds_paths)), pd),
                     Tail(ds_paths), ch, pd)

\* lines 91-95: col_names.remove(name) runs for every name of sort_order and
\* raises ValueError for a name that is not a column
SortColumns(ds_df) ==
    IF \E i \in 1..Len(sort_order) : sort_order[i] \notin Range(ds_df.columns)
    THEN Raise("ValueError", "ds_info", <<>>)
    ELSE Ok(DfReindex(ds_df,
               SelectSeq(sort_order, LAMBDA name : name \in Range(ds_df.columns))
                  \o SelectSeq(ds_df.columns, LAMBDA name : name \notin Range(sort_order))))

\* pretty_df.astype({"numberOfCells": "int32", "numberOfGenes": "int32"})
\* raises ValueError on a NaN cell
AstypeFails(df) ==
    \E i \in 1..Len(df.rows) :
        df.rows[i]["numberOfCells"] = NaN \/ df.rows[i]["numberOfGenes"] = NaN

\* the value of a call that returns nothing
PyNone == [columns |-> <<>>, rows |-> <<>>, none |-> TRUE]

\* lines 117-126, selected being the outcome of select_ds_id(ds, df=ds_df)
InfoOfOne(selected, pretty, output) ==
    IF pretty /\ ~selected.ok THEN selected
    ELSE IF output THEN selected
    ELSE Ok(PyNone)

\* lines 128-150
InfoOfAll(ds_df, pretty, output) ==
    IF pretty /\ AstypeFails(ds_df) THEN Raise("ValueError", "astype", <<>>)
    ELSE IF output THEN Ok(ds_df)
    ELSE Ok(PyNone)

\* lines 91-150, sorted being the outcome of the column sort
InfoOfTable(sorted, ds, pretty, output, ipy) ==
    IF ~sorted.ok THEN sorted
    ELSE IF Truthy(ds)
         THEN InfoOfOne(select_ds_id(ds.v, sorted.val, ipy), pretty, output)
         ELSE InfoOfAll(sorted.val, pretty, output)

\* lines 79-150, collected being the outcome of the loop of lines 72-77
InfoOfCollected(collected, ds, pretty, output, ipy) ==
    IF ~collected.ok THEN collected
    ELSE InfoOfTable(SortColumns(collected.val), ds, pretty, output, ipy)

\* lines 71-150, ds_paths being the outcome of get_ds_paths
InfoOfPaths(ds_paths, ds, pretty, output, ch, pd, ipy) ==
    IF ~ds_paths.ok THEN ds_paths
    ELSE InfoOfCollected(CollectInfo(DfEmpty, ds_paths.val, ch, pd),
                         ds, pretty, output, ipy)

ds_info(ds, pretty, output, exists, ch, pd, ipy) ==
    InfoOfPaths(get_ds_paths(exists, ch), ds, pretty, output, ch, pd, ipy)

----------------------------------------------------------------------------
(* load_data *)

\* DEFAULT_READERS of the module, each reader named by its function
DefaultReaders ==
    << <<"Loom", "readers.read_loom_to_anndata">>,
       <<"Seurat Object", "readers.read_seurat_to_anndata">>,
       <<"AnnData", "readers.read_anndata_to_anndata">>,
       <<"10x (hdf5)", "readers.read_10xhdf5_to_anndata">>,
       <<"10x (mtx)", "readers.read_10xmtx_to_anndata">>,
       <<"tab-separated text", "readers.read_densetsv_to_anndata">>,
       <<"comma-separated text", "readers.read_densecsv_to_anndata">> >>

\* DEFAULT_READERS.update(additional_readers) in place of the merged copy
BuildReaders_UpdateInPlace(defaults, additional_readers) ==
    [readers |-> DictMerge(defaults, additional_readers),
     DEFAULT_READERS |-> DictMerge(defaults, additional_readers)]

\* line 175, readers = {**DEFAULT_READERS, **additional_readers}: the local
\* registry and the module-level registry after the statement
BuildReaders(defaults, additional_readers) ==
    [readers |-> DictMerge(defaults, additional_readers),
     DEFAULT_READERS |-> defaults]

\* lines 177-183, table being the outcome of ds_info(pretty=False)
ResolveFrom(table, ds, ipy) ==
    IF ~table.ok THEN table
    ELSE IF Truthy(ds) THEN select_ds_id(ds.v, table.val, ipy)
    ELSE IF Len(table.val.rows) = 1 THEN table
    ELSE Raise("AssertionError", "load_data", <<>>)

\* lines 177-183: the one-row frame load_data works on
ResolveRecord(ds, exists, ch, pd, ipy) ==
    ResolveFrom(ds_info(NoneVal, FALSE, TRUE, exists, ch, pd, ipy), ds, ipy)

\* Path(path) / file, for a relative one-component file name
PayloadPath(path, file) == Append(path, file)

\* the AnnData a reader hands back: shape, obs columns, uns entries
ReaderBody(shape) == [shape |-> shape, obs |-> <<>>, uns |-> <<>>]

\* fg_id sized by adata.shape[1], the number of genes
Enrich_GeneCount(adata, ds_id, record) ==
    [adata EXCEPT
        !.uns = DictSet(adata.uns, "ds_metadata", << <<ds_id, record>> >>),
        !.obs = DictSet(adata.obs, "fg_id", [i \in 1..adata.shape[2] |-> ds_id])]

\* lines 196-197: uns["ds_metadata"] and obs["fg_id"], the latter one value
\* per row of the body
Enrich(adata, ds_id, record) ==
    [adata EXCEPT
        !.uns = DictSet(adata.uns, "ds_metadata", << <<ds_id, record>> >>),
        !.obs = DictSet(adata.obs, "fg_id", [i \in 1..adata.shape[1] |-> ds_id])]

\* line 195: the reader called and its argument
ReaderCall(record, readers) ==
    [reader |-> DictGet(readers, record["format"]),
     path |-> PayloadPath(record["path"], record["file"])]

\* lines 195-204; outcome is what the reader does when called:
\* [raises |-> BOOLEAN, shape |-> <<n_cells, n_genes>>]; an exception of the
\* reader propagates
ReadAndEnrich(record, readers, outcome) ==
    [calls |-> <<ReaderCall(record, readers)>>,
     res |-> IF outcome.raises
             THEN Raise("ReaderError", DictGet(readers, record["format"]), <<>>)
             ELSE Ok(Enrich(ReaderBody(outcome.shape), record["id"], record))]

\* the KeyError message built from list(DEFAULT_READERS)
Dispatch_ListsDefaults(record, readers, outcome) ==
    IF DictHas(readers, record["format"])
    THEN ReadAndEnrich(record, readers, outcome)
    ELSE [calls |-> <<>>,
          res |-> IF record["format"] = "Other"
                  THEN Raise("NotImplementedError", "load_data", <<>>)
                  ELSE IF record["format"] = "Not set"
                  THEN Raise("ValueError", "load_data", <<>>)
                  ELSE Raise("KeyError", "load_data", DictKeys(DefaultReaders))]

\* the sentinel formats tested before the registry
Dispatch_SentinelsFirst(record, readers, outcome) ==
    IF record["format"] = "Other"
    THEN [calls |-> <<>>, res |-> Raise("NotImplementedError", "load_data", <<>>)]
    ELSE IF record["format"] = "Not set"
    THEN [calls |-> <<>>, res |-> Raise("ValueError", "load_data", <<>>)]
    ELSE IF DictHas(readers, record["format"])
    THEN ReadAndEnrich(record, readers, outcome)
    ELSE [calls |-> <<>>, res |-> Raise("KeyError", "load_data", DictKeys(readers))]

\* lines 191-220: the branch on the format of the record single_df.loc[0]
Dispatch(record, readers, outcome) ==
    IF DictHas(readers, record["format"])
    THEN ReadAndEnrich(record, readers, outcome)
    ELSE [calls |-> <<>>,
          res |-> IF record["format"] = "Other"
                  THEN Raise("NotImplementedError", "load_data", <<>>)
                  ELSE IF record["format"] = "Not set"
                  THEN Raise("ValueError", "load_data", <<>>)
                  ELSE Raise("KeyError", "load_data", DictKeys(readers))]

\* the outcome d of the dispatch with the module-level registry of built
WithRegistry(d, built) ==
    [res |-> d.res, calls |-> d.calls, DEFAULT_READERS |-> built.DEFAULT_READERS]

\* lines 185-220, built being the registries after line 175 and single_df the
\* outcome of lines 177-183
LoadFrom(built, single_df, outcome) ==
    IF ~single_df.ok
    THEN WithRegistry([res |-> single_df, calls |-> <<>>], built)
    ELSE WithRegistry(Dispatch(single_df.val.rows[1], built.readers, outcome), built)

\* the whole call: result, reader invocations, and the module-level registry
\* as the call leaves it
load_data(ds, additional_readers, defaults, exists, ch, pd, ipy, outcome) ==
    LoadFrom(BuildReaders(defaults, additional_readers),
             ResolveRecord(ds, exists, ch, pd, ipy), outcome)

----------------------------------------------------------------------------
(* Inputs *)

Identifiers ==
    {NoneVal, Some(""), Some("a1"), Some("a2"), Some("Demo"), Some("a3")}

\* the identifiers that are strings
Titles == {ds.v : ds \in {x \in Identifiers : x.some}}

ExtraReaders ==
    { <<>>,
      << <<"comma-separated text", "custom_csv">>, <<"Other", "custom_other">> >>,
      << <<"Not set", "custom_notset">>, <<"BadFormat", "custom_bad">> >> }

ReaderOutcomes ==
    {[raises |-> TRUE, shape |-> <<0, 0>>]}
        \cup {[raises |-> FALSE, shape |-> <<n, 1>>] : n \in {0, MaxRows}}

----------------------------------------------------------------------------
(* State machine *)

Idle == [op |-> "none"]

NoChildren == [n \in NamePool |-> NoEntry]

Init ==
    /\ root_exists = FALSE
    /\ children = NoChildren
    /\ ipython \in BOOLEAN
    /\ pandas \in PandasAppend
    /\ DEFAULT_READERS = DefaultReaders
    /\ last = Idle
    /\ overridden = FALSE

(* the environment changes the data directory between calls *)
MkRoot ==
    /\ last = Idle
    /\ ~root_exists
    /\ root_exists' = TRUE
    /\ UNCHANGED <<children, ipython, pandas, DEFAULT_READERS, last, overridden>>

RmRoot ==
    /\ last = Idle
    /\ root_exists
    /\ root_exists' = FALSE
    /\ children' = NoChildren
    /\ UNCHANGED <<ipython, pandas, DEFAULT_READERS, last, overridden>>

AddEntry(n, e) ==
    /\ last = Idle
    /\ root_exists
    /\ children[n] = NoEntry
    /\ Cardinality(IterDir(children)) < MaxChildren
    /\ children' = [children EXCEPT ![n] = e]
    /\ UNCHANGED <<root_exists, ipython, pandas, DEFAULT_READERS, last, overridden>>

RemoveEntry(n) ==
    /\ last = Idle
    /\ root_exists
    /\ children[n] # NoEntry
    /\ children' = [children EXCEPT ![n] = NoEntry]
    /\ UNCHANGED <<root_exists, ipython, pandas, DEFAULT_READERS, last, overridden>>

(* the calls: last holds the outcome of a call until the caller has taken it *)
GetDsPaths ==
    /\ last = Idle
    /\ last' = [op |-> "get_ds_paths", res |-> get_ds_paths(root_exists, children)]
    /\ UNCHANGED <<root_exists, children, ipython, pandas, DEFAULT_READERS, overridden>>

DsInfo(ds, pretty, output) ==
    /\ last = Idle
    /\ last' = [op |-> "ds_info", ds |-> ds, pretty |-> pretty, output |-> output,
                res |-> ds_info(ds, pretty, output, root_exists, children, pandas, ipython)]
    /\ UNCHANGED <<root_exists, children, ipython, pandas, DEFAULT_READERS, overridden>>

\* select_ds_id called on a table that ds_info returned
SelectFrom(table, ds) ==
    /\ table.ok
    /\ last' = [op |-> "select_ds_id", ds |-> ds, df |-> table.val,
                res |-> select_ds_id(ds, table.val, ipython)]

SelectDsId(ds) ==
    /\ last = Idle
    /\ SelectFrom(ds_info(NoneVal, FALSE, TRUE, root_exists, children, pandas, ipython), ds)
    /\ UNCHANGED <<root_exists, children, ipython, pandas, DEFAULT_READERS, overridden>>

\* additional_readers has a key that is also a key of the module's registry
Collides(additional_readers) ==
    \E i \in 1..Len(additional_readers) : DictHas(DefaultReaders, additional_readers[i][1])

\* what a load_data call leaves behind, r being what load_data gives
LoadDone(r, ds, additional_readers) ==
    /\ last' = [op |-> "load_data", ds |-> ds,
                additional_readers |-> additional_readers,
                res |-> r.res, calls |-> r.calls]
    /\ DEFAULT_READERS' = r.DEFAULT_READERS

\* overridden is a history variable: some earlier load_data call was given
\* an additional reader under a default format label
LoadData(ds, additional_readers, outcome) ==
    /\ last = Idle
    /\ LoadDone(load_data(ds, additional_readers, DEFAULT_READERS,
                          root_exists, children, pandas, ipython, outcome),
                ds, additional_readers)
    /\ overridden' = (overridden \/ Collides(additional_readers))
    /\ UNCHANGED <<root_exists, children, ipython, pandas>>

\* the call has returned or raised and the caller has taken the outcome
Return ==
    /\ last # Idle
    /\ last' = Idle
    /\ UNCHANGED <<root_exists, children, ipython, pandas, DEFAULT_READERS, overridden>>

Next ==
    \/ MkRoot
    \/ RmRoot
    \/ \E n \in NamePool : \E e \in EntriesFor(n) : AddEntry(n, e)
    \/ \E n \in NamePool : RemoveEntry(n)
    \/ GetDsPaths
    \/ \E ds \in Identifiers, pretty \in BOOLEAN, output \in BOOLEAN : DsInfo(ds, pretty, output)
    \/ \E ds \in Titles : SelectDsId(ds)
    \/ \E ds \in Identifiers, x \in ExtraReaders, o \in ReaderOutcomes : LoadData(ds, x, o)
    \/ Return

Spec == Init /\ [][Next]_vars

----------------
(* Properties.  While last holds the outcome of a call the data directory is *)
(* the one the call saw: the directory changes only between calls.           *)

IsLoad == last.op = "load_data"

\* the record the load_data call of last worked on
Resolved == ResolveRecord(last.ds, root_exists, children, pandas, ipython)

LoadRecord == Resolved.val.rows[1]

\* the format labels of the effective registry of a call
EffectiveKeys(additional_readers) ==
    Range(DictKeys(DefaultReaders)) \cup Range(DictKeys(additional_readers))

\* the reader the effective registry holds for a format
ExpectedReader(additional_readers, format) ==
    IF DictHas(additional_readers, format)
    THEN DictGet(additional_readers, format)
    ELSE DictGet(DefaultReaders, format)

\* C1: when the format of the resolved record is not a key of the effective
\* registry, load_data calls no reader and raises NotImplementedError for
\* "Other", ValueError for "Not set" and, for any other format, KeyError with
\* the format labels of the effective registry in its message.
C1_UnregisteredFormat ==
    (IsLoad /\ Resolved.ok
        /\ LoadRecord["format"] \notin EffectiveKeys(last.additional_readers))
    => LET format == LoadRecord["format"]
       IN /\ last.calls = <<>>
          /\ ~last.res.ok
          /\ last.res.err.at = "load_data"
          /\ last.res.err.kind =
                (CASE format = "Other" -> "NotImplementedError"
                   [] format = "Not set" -> "ValueError"
                   [] OTHER -> "KeyError")
          /\ (format \notin {"Other", "Not set"}
                => Range(last.res.err.info) = EffectiveKeys(last.additional_readers))

C1_Witness ==
    /\ IsLoad
    /\ Resolved.ok
    /\ LoadRecord["format"] = "BadFormat"
    /\ last.additional_readers # <<>>
    /\ last.res.err.kind = "KeyError"
    /\ last.res.err.at = "load_data"

\* C2: when the format of the resolved record is a key of the effective
\* registry, load_data calls the reader registered under it exactly once, on
\* path/file; if the reader returns, uns["ds_metadata"] maps the dataset id to
\* the whole record and obs["fg_id"] has one entry per row, each the id.
C2_RegisteredFormat ==
    (IsLoad /\ Resolved.ok
        /\ LoadRecord["format"] \in EffectiveKeys(last.additional_readers))
    => /\ last.calls =
            << [reader |-> ExpectedReader(last.additional_readers, LoadRecord["format"]),
                path |-> Append(LoadRecord["path"], LoadRecord["file"])] >>
       /\ LoadRecord["path"] \in {Append(DATA_DIR, n) : n \in IterDir(children)}
       /\ last.res.ok =>
            LET adata == last.res.val
            IN /\ DictHas(adata.uns, "ds_metadata")
               /\ DictGet(adata.uns, "ds_metadata") = << <<LoadRecord["id"], LoadRecord>> >>
               /\ DictHas(adata.obs, "fg_id")
               /\ Len(DictGet(adata.obs, "fg_id")) = adata.shape[1]
               /\ \A i \in 1..adata.shape[1] :
                     DictGet(adata.obs, "fg_id")[i] = LoadRecord["id"]

C2_Witness ==
    /\ IsLoad
    /\ last.res.ok
    /\ Len(last.calls) = 1
    /\ last.res.val.shape[1] = MaxRows
    /\ Len(DictGet(last.res.val.obs, "fg_id")) = MaxRows

\* C7: the module-level registry is the same after every call, and every
\* load_data call dispatches by its own additional_readers over the original
\* defaults: an override given to an earlier call has no effect on it.
C7_NoCrossCallLeak ==
    /\ DEFAULT_READERS = DefaultReaders
    /\ (IsLoad /\ last.calls # <<>>)
        => /\ Resolved.ok
           /\ last.calls[1].reader =
                ExpectedReader(last.additional_readers, LoadRecord["format"])

C7_Witness ==
    /\ overridden
    /\ IsLoad
    /\ ~Collides(last.additional_readers)
    /\ last.res.ok
    /\ last.calls # <<>>
    /\ last.calls[1].reader = "readers.read_densecsv_to_anndata"

\* C10: a sentinel format that is a key of the effective registry is read by
\* the registered reader; NotImplementedError and ValueError are raised by
\* the dispatch only for a sentinel that is not a key.
C10_RegistryBeforeSentinels ==
    /\ (IsLoad /\ Resolved.ok
          /\ LoadRecord["format"] \in {"Other", "Not set"}
          /\ DictHas(last.additional_readers, LoadRecord["format"]))
        => /\ last.calls # <<>>
           /\ last.calls[1].reader = DictGet(last.additional_readers, LoadRecord["format"])
           /\ last.res.err.kind \notin {"NotImplementedError", "ValueError"}
    /\ (IsLoad /\ Resolved.ok /\ ~last.res.ok /\ last.res.err.at = "load_data"
          /\ last.res.err.kind \in {"NotImplementedError", "ValueError"})
        => /\ LoadRecord["format"] \in {"Other", "Not set"}
           /\ LoadRecord["format"] \notin EffectiveKeys(last.additional_readers)

C10_Witness ==
    /\ IsLoad
    /\ Resolved.ok
    /\ LoadRecord["format"] = "Other"
    /\ last.res.ok
    /\ last.calls # <<>>
    /\ last.calls[1].reader = "custom_other"

\* the children get_ds_paths has to return
ValidDirs == {n \in IterDir(children) : IsDir(children, n) /\ ReMatch(n)}

\* C8: for an existing data directory get_ds_paths returns exactly the
\* children that are directories with a name matching the pattern, each once,
\* in increasing order, and raises AssertionError exactly when there is none;
\* for a missing data directory it returns the empty list.
C8_Scan ==
    last.op = "get_ds_paths"
    => IF ~root_exists THEN last.res.ok /\ last.res.val = <<>>
       ELSE /\ last.res.ok <=> ValidDirs # {}
            /\ ~last.res.ok
                => last.res.err.kind = "AssertionError" /\ last.res.err.at = "get_ds_paths"
            /\ last.res.ok
                => LET paths == last.res.val
                   IN /\ {paths[i] : i \in 1..Len(paths)}
                            = {Append(DATA_DIR, n) : n \in ValidDirs}
                      /\ \A i \in 1..Len(paths) : \A j \in 1..Len(paths) :
                            i < j => StrLess(paths[i][Len(paths[i])], paths[j][Len(paths[j])])

C8_Witness ==
    /\ last.op = "get_ds_paths"
    /\ last.res.ok
    /\ Len(last.res.val) = 1
    /\ \E n \in IterDir(children) : IsDir(children, n) /\ ~ReMatch(n)

\* the number of rows of the table with id or title equal to ds
MatchCount(ds, df) ==
    Cardinality({i \in 1..Len(df.rows) : df.rows[i]["id"] = ds \/ df.rows[i]["title"] = ds})

\* C3: select_ds_id returns the matching row when exactly one row matches,
\* raises the KeyError that reports 0 matches when none does, and raises the
\* KeyError that reports the number of matches, and nothing else, when two
\* or more do.
C3_Select ==
    last.op = "select_ds_id"
    => LET n == MatchCount(last.ds, last.df)
       IN /\ n = 1
              => /\ last.res.ok
                 /\ Len(last.res.val.rows) = 1
                 /\ \E i \in 1..Len(last.df.rows) :
                       /\ last.df.rows[i]["id"] = last.ds \/ last.df.rows[i]["title"] = last.ds
                       /\ last.res.val.rows[1] = last.df.rows[i]
          /\ n # 1
              => /\ ~last.res.ok
                 /\ last.res.err.kind = "KeyError"
                 /\ last.res.err.at = "select_ds_id"
                 /\ last.res.err.info = <<n>>

\* a ds_info call that asks for the whole table
IsListing == last.op = "ds_info" /\ ~Truthy(last.ds) /\ last.output

\* C4: with a missing data directory ds_info returns an empty table without
\* raising, and load_data without an identifier then fails.
C4_MissingRoot ==
    /\ (IsListing /\ ~root_exists) => (last.res.ok /\ last.res.val.rows = <<>>)
    /\ (IsLoad /\ ~Truthy(last.ds) /\ ~root_exists) => ~last.res.ok

\* first occurrences of the elements of a sequence, in order
RECURSIVE FirstOccurrences(_)
FirstOccurrences(s) ==
    IF s = <<>> THEN <<>>
    ELSE <<Head(s)>> \o FirstOccurrences(SelectSeq(Tail(s), LAMBDA x : x # Head(s)))

\* the keys of the records of the directories, record after record
RECURSIVE KeysInOrder(_)
KeysInOrder(ds_paths) ==
    IF ds_paths = <<>> THEN <<>>
    ELSE DictKeys(ReadInfo(children, Head(ds_paths))) \o KeysInOrder(Tail(ds_paths))

\* the columns in the order the records bring them in
EncounterColumns ==
    FirstOccurrences(KeysInOrder(get_ds_paths(root_exists, children).val))

\* C5: for every non-empty set of records, whether or not organism, tissue,
\* numberOfCells and numberOfGenes occur in them, ds_info succeeds and the
\* columns are the priority columns that occur, in the priority order, then
\* every other column once, in encounter order.
C5_ColumnOrder ==
    (IsListing /\ ~last.pretty /\ get_ds_paths(root_exists, children).ok
        /\ get_ds_paths(root_exists, children).val # <<>>)
    => /\ last.res.ok
       /\ last.res.val.columns =
            SelectSeq(sort_order, LAMBDA c : c \in Range(EncounterColumns))
                \o SelectSeq(EncounterColumns, LAMBDA c : c \notin Range(sort_order))

\* C6: load_data without an identifier works on a record only when the table
\* has exactly one row, and for a table of any other number of rows raises
\* the AssertionError of load_data without calling a reader; with an
\* identifier the record is the one select_ds_id gives.
C6_ImplicitSelection ==
    LET scan == get_ds_paths(root_exists, children)
        table == ds_info(NoneVal, FALSE, TRUE, root_exists, children, pandas, ipython)
    IN /\ (IsLoad /\ ~Truthy(last.ds) /\ scan.ok)
            => /\ (last.res.ok \/ last.calls # <<>>) => Len(scan.val) = 1
               /\ Len(scan.val) # 1
                    => /\ ~last.res.ok
                       /\ last.res.err.kind = "AssertionError"
                       /\ last.res.err.at = "load_data"
                       /\ last.calls = <<>>
       /\ (IsLoad /\ Truthy(last.ds) /\ table.ok
             /\ ~select_ds_id(last.ds.v, table.val, ipython).ok)
            => last.res = select_ds_id(last.ds.v, table.val, ipython)

\* C9: on a data directory whose entries are N >= 1 dataset directories and
\* nothing else, ds_info returns N rows, row i carrying the path of the i-th
\* directory of the directory as it is at the call, and no schemaVersion.
C9_FreshTable ==
    (IsListing /\ root_exists /\ IterDir(children) # {} /\ IterDir(children) = ValidDirs)
    => /\ last.res.ok
       /\ Len(last.res.val.rows) = Cardinality(ValidDirs)
       /\ \A i \in 1..Len(last.res.val.rows) :
             last.res.val.rows[i]["path"] = Append(DATA_DIR, Sorted(ValidDirs)[i])
       /\ "schemaVersion" \notin Range(last.res.val.columns)

====
